---- MODULE Spec2Model ----
(***************************************************************************)
(* Model of the web server of if-dl (src/src/web/server.ts): the registry  *)
(* of active downloads, the create / cancel / list request handlers, the   *)
(* completion callbacks attached to downloader.start(), and the broadcast  *)
(* of events to the WebSocket clients, the logger that turns log entries   *)
(* into 'log' events, and the validate-path handler.                       *)
(*                                                                         *)
(* Spec is the download lifecycle; SpecBus adds the clients' connections   *)
(* and the logger to two running downloads; SpecLog is one call of the     *)
(* logger on every entry; SpecPath is validate-path on every filesystem.   *)
(* SpecClient is the page (src/src/web/public/app.js) against the server.  *)
(* SpecStartThrows adds a downloader whose start() throws synchronously;   *)
(* the Fair specifications assume that callbacks and handlers run.         *)
(*                                                                         *)
(* Node runs every request handler and every promise callback to           *)
(* completion on one thread, so each of them is one atomic action.         *)
(***************************************************************************)
EXTENDS Integers, Sequences, FiniteSets, TLC

\* ---- bounds of the model ------------------------------------------------
MaxClock == 1
MaxSessions == 2
MaxClients == 2
MaxLogs == 1
MaxParts == 2
MaxPages == 1

\* ---- values -------------------------------------------------------------
\* JavaScript's undefined, as a request field that is absent.
Undefined == "<undefined>"
\* activeDownloads.get(id) of an absent key.
NoSession == 0

\* Request bodies tried by the model: present, empty and absent fields.
Urls == {Undefined, "", "https://example.test/gallery"}
OutDirs == {Undefined, "", "/tmp/out"}

\* Date.now().toString(): decimal rendering of the millisecond clock.
DownloadIdOf(ms) == ToString(ms)

\* Identifiers a cancel request may name: every one the clock can produce,
\* and one that no create can ever return.
CancelIds == {DownloadIdOf(ms) : ms \in 0..MaxClock} \cup {"nosuch"}

VARIABLES
  now,              \* Date.now(), in milliseconds
  activeDownloads,  \* Map: downloadId -> session (its downloader/abortController)
  sessions,         \* one record per create call that built a downloader
  events,           \* every message handed to broadcast(), in order
  last,             \* the HTTP request handled most recently, and its response
  cancelAccepted,   \* history: the sessions that were running when a cancel
                    \* request naming their identifier was answered 200
  sockets,          \* the WebSocket of each client: readyState and what was sent to it
  logRaised,        \* history: the sessions whose call of WebLogger.log threw
  fs,               \* the filesystem around the directory a client asks about
  browser           \* the page of each client (app.js): its download state

vars == <<now, activeDownloads, sessions, events, last, cancelAccepted, sockets, logRaised, fs, browser>>

\* ---- helpers ------------------------------------------------------------
\* !v of JavaScript for the string-or-undefined request fields.
Falsy(v) == v = Undefined \/ v = ""

\* The check of line 89 with the test of outDir forgotten.
RequestRejectedUrlOnly(url, outDir) == Falsy(url)

\* server.ts:89  if (!url || !outDir)
RequestRejected(url, outDir) == Falsy(url) \/ Falsy(outDir)

\* Map.prototype.get
MapGet(m, k) == IF k \in DOMAIN m THEN m[k] ELSE NoSession

\* A set that stores nothing.
MapSetDropped(m, k, v) == m

\* Map.prototype.set
MapSet(m, k, v) == [x \in DOMAIN m \cup {k} |-> IF x = k THEN v ELSE m[x]]

\* Map.prototype.delete
MapDelete(m, k) == [x \in DOMAIN m \ {k} |-> m[x]]

\* Array.from(activeDownloads.keys())
MapKeys(m) == DOMAIN m

\* broadcast(data): the message is handed to every open client.  `sid` is
\* not on the wire: it records which session's closure (or registry entry)
\* produced the message.
\* The `message` of the three terminal payloads is a fixed text for
\* 'complete' (line 133) and 'cancelled' (line 176); for 'error' it is
\* computed from the rejection (line 142).
FixedMessage(type) ==
  IF type = "complete" THEN "Download completed successfully" ELSE "Download cancelled"

Event(type, downloadId, sid) ==
  [type |-> type, downloadId |-> downloadId, message |-> FixedMessage(type), sid |-> sid]

\* What downloader.start() may reject with: an Error with its message, or a
\* value that is no Error.
Rejections ==
  { [isError |-> TRUE, message |-> "connect ECONNREFUSED"],
    [isError |-> FALSE, message |-> Undefined] }

\* server.ts:142  error instanceof Error ? error.message : 'Unknown error occurred'
ErrorMessage(error) == IF error.isError THEN error.message ELSE "Unknown error occurred"

\* server.ts:139-143  the 'error' payload
ErrorEvent(downloadId, error, sid) ==
  [type |-> "error", downloadId |-> downloadId, message |-> ErrorMessage(error), sid |-> sid]

Broadcast(ev) == Append(events, ev)

\* ---- log entries ----------------------------------------------------------
\* One element of LogEntry.message, a JavaScript value.  `kind` tells the
\* values apart as the adapter and JSON.stringify do; `text` is the value's
\* content (for an Error its message, for an object what util.inspect
\* prints); name, stack and cause are the properties of an Error.
Value(kind, text) ==
  [kind |-> kind, text |-> text, name |-> Undefined, stack |-> Undefined, cause |-> Undefined]

ErrorValue(name, message, stack, cause) ==
  [kind |-> "error", text |-> message, name |-> name, stack |-> stack, cause |-> cause]

\* What error.cause may hold: nothing, a string, another Error, a BigInt, an
\* object that refers to itself.
Causes == {Undefined, "string", "error", "bigint", "circular"}

Stacks == {Undefined, "TypeError: fetch failed\n    at start (downloader.js:1:1)"}

PlainValues ==
  { Value("string", "page 1 of 3"),
    Value("number", "42"),
    Value("undefined", Undefined),
    Value("null", "null"),
    Value("bigint", "7"),
    Value("function", "[Function: retry]"),
    Value("object", "{ status: 404 }"),
    Value("circular", "<ref *1> { self: [Circular *1] }") }

ErrorValues ==
  { ErrorValue("TypeError", "fetch failed", stack, cause) : stack \in Stacks, cause \in Causes }

Values == PlainValues \cup ErrorValues

\* The primitive values of JavaScript.
IsPrimitive(m) == m.kind \in {"string", "number", "undefined", "null", "bigint"}

\* typeof m
TypeOf(m) ==
  IF m.kind \in {"null", "object", "circular", "error"} THEN "object" ELSE m.kind

\* m instanceof Error
InstanceOfError(m) == m.kind = "error"

\* util.inspect(m, {depth: 3, colors: false}): a string.
Inspect(m) == Value("string", m.text)

\* The record of lines 52-58.  cause is copied as it is.
ErrorRecord(m) ==
  [kind |-> "errorRecord", text |-> m.text, name |-> m.name, stack |-> m.stack, cause |-> m.cause]

\* server.ts:49-65  the callback of entry.message.map
SerializePart(m) ==
  IF InstanceOfError(m) THEN ErrorRecord(m)
  ELSE IF TypeOf(m) = "object" /\ m.kind # "null" THEN Inspect(m)
  ELSE m

\* A LogEntry, or null.
Entry(level, originator, message) ==
  [present |-> TRUE, level |-> level, originator |-> originator, message |-> message]

NullEntry == [present |-> FALSE, level |-> Undefined, originator |-> Undefined, message |-> << >>]

\* server.ts:49-65  entry.message.map(...)
SerializedMessage(message) == [i \in DOMAIN message |-> SerializePart(message[i])]

\* server.ts:67-72  the 'log' payload: it has no downloadId key.  `parts` is
\* history: the message array the operation logged.
LogEvent(entry, sid) ==
  [type |-> "log", downloadId |-> Undefined, level |-> entry.level,
   originator |-> entry.originator, message |-> SerializedMessage(entry.message),
   sid |-> sid, parts |-> entry.message]

\* JSON.stringify throws a TypeError on a BigInt and on a circular structure.
JsonThrowsOn(v) ==
  \/ v.kind = "bigint"
  \/ v.kind = "circular"
  \/ v.kind = "errorRecord" /\ v.cause \in {"bigint", "circular"}

\* JSON.stringify of one array element, as JSON.parse gives it back:
\* undefined and functions become null, an undefined property is omitted,
\* an Error (it has no enumerable property) becomes {}.
JsonOf(v) ==
  IF v.kind \in {"undefined", "function"} THEN Value("null", "null")
  ELSE IF v.kind = "errorRecord" /\ v.cause = "error" THEN [v EXCEPT !.cause = "{}"]
  ELSE v

\* JSON.stringify(data) throws.
StringifyThrows(ev) ==
  ev.type = "log" /\ \E i \in DOMAIN ev.message : JsonThrowsOn(ev.message[i])

\* JSON.stringify(data), as the client parses it.
Wire(ev) ==
  IF ev.type = "log" THEN [ev EXCEPT !.message = [i \in DOMAIN @ |-> JsonOf(@[i])]] ELSE ev

\* WebSocket.readyState
CONNECTING == 0
OPEN == 1
CLOSING == 2
CLOSED == 3

Clients == 1..MaxClients

\* wss.clients: the sockets whose handshake is done and that have not
\* emitted 'close' yet.
WssClients == {c \in Clients : sockets[c].readyState \in {OPEN, CLOSING}}

\* forEach gives up at the first client of wss.clients that is not open.
ReceivesBehindOpenOnly(c) ==
  /\ c \in WssClients
  /\ \A d \in WssClients : d <= c => sockets[d].readyState = OPEN

\* Line 38 without its test: every client of wss.clients is sent to.
ReceivesInAnyState(c) == c \in WssClients

\* server.ts:38  if (client.readyState === 1)
Receives(c) == c \in WssClients /\ sockets[c].readyState = OPEN

\* server.ts:37-41  wss.clients.forEach(...): client.send for every open
\* client.  `joined` and `left` are history: the number of messages
\* broadcast before the socket opened and before it stopped being open.
Deliver(ev) ==
  [c \in Clients |->
     IF Receives(c)
       THEN [sockets[c] EXCEPT !.inbox = Append(@, Wire(ev))]
       ELSE sockets[c]]

\* broadcast(data) throws: data cannot be stringified and some client is open.
BroadcastThrows(ev) == StringifyThrows(ev) /\ \E c \in Clients : Receives(c)

\* One call of broadcast(data) that returns normally.
Publish(ev) ==
  /\ events' = Broadcast(ev)
  /\ sockets' = Deliver(ev)

TerminalTypes == {"complete", "error", "cancelled"}

\* One HTTP exchange: the handler, the request's fields, the status of the
\* response and the identifiers the response body carries.
Request(url, outDir, id) == [url |-> url, outDir |-> outDir, id |-> id]

Response(op, req, status, body) == [op |-> op, req |-> req, status |-> status, body |-> body]

\* The test of line 138 without its negation.
ReportsFailureInverted(s) == sessions[s].aborted

\* server.ts:138  if (!abortController.signal.aborted)
ReportsFailure(s) == ~sessions[s].aborted

\* The sessions created under identifier id whose operation has been started
\* and has not returned yet.
Running(id) == {s \in DOMAIN sessions : sessions[s].id = id /\ sessions[s].op = "running"}

\* ---- the filesystem --------------------------------------------------------
\* What fs.existsSync, fs.statSync and fs.accessSync can find out about one
\* directory path: the directory that would contain it (`parent`: is it
\* there, may the server write to it, may the server look names up in it) and
\* the path itself (`target`: is it there, may the server write to it).
Filesystems ==
  { f \in [parent : {"missing", "file", "dir"}, parentWritable : BOOLEAN,
           parentSearchable : BOOLEAN, target : {"missing", "file", "dir"},
           targetWritable : BOOLEAN] :
      /\ f.parent # "dir" => ~f.parentWritable /\ ~f.parentSearchable /\ f.target = "missing"
      /\ f.target = "missing" => ~f.targetWritable }

\* A writable directory that does not hold the path yet.
EmptyParent ==
  [parent |-> "dir", parentWritable |-> TRUE, parentSearchable |-> TRUE,
   target |-> "missing", targetWritable |-> FALSE]

\* ---- the page (app.js) ------------------------------------------------------
\* JavaScript's null.
Null == "<null>"

\* No fetch of POST /api/download is in flight.
NoFetch == [status |-> 0, downloadId |-> Undefined]

\* app.js as loaded: currentDownloadId = null (line 2), Start enabled,
\* Cancel disabled, no message handled yet.  `session` is history: the
\* session the page's last accepted start created.
PageLoaded ==
  [currentDownloadId |-> Null, startDisabled |-> FALSE, cancelDisabled |-> TRUE,
   handled |-> 0, fetch |-> NoFetch, session |-> NoSession]

\* ---- initial state ------------------------------------------------------
Init ==
  /\ now = 0
  /\ activeDownloads = << >>
  /\ sessions = << >>
  /\ events = << >>
  /\ last = Response("none", Request(Undefined, Undefined, Undefined), 0, {})
  /\ cancelAccepted = {}
  /\ sockets = [c \in Clients |->
                  [readyState |-> CONNECTING, inbox |-> << >>, joined |-> 0, left |-> 0]]
  /\ logRaised = {}
  /\ fs = EmptyParent
  /\ browser = [c \in Clients |-> PageLoaded]

\* ---- actions ------------------------------------------------------------
\* The system clock advances by a millisecond.
Tick ==
  /\ now < MaxClock
  /\ now' = now + 1
  /\ UNCHANGED <<activeDownloads, sessions, events, last, cancelAccepted, sockets, logRaised, fs, browser>>

\* POST /api/download with a missing or empty url or outDir: 400.
CreateRejected(url, outDir) ==
  /\ RequestRejected(url, outDir)
  /\ last' = Response("create", Request(url, outDir, Undefined), 400, {})
  /\ UNCHANGED <<now, activeDownloads, sessions, events, cancelAccepted, sockets, logRaised, fs, browser>>

\* POST /api/download, new ImageFapDownloader(...) throws: 500, and
\* nothing has been stored yet.
ConstructorThrows(url, outDir) ==
  /\ ~RequestRejected(url, outDir)
  /\ last' = Response("create", Request(url, outDir, Undefined), 500, {})
  /\ UNCHANGED <<now, activeDownloads, sessions, events, cancelAccepted, sockets, logRaised, fs>>

CreateConstructorThrows(url, outDir) == ConstructorThrows(url, outDir) /\ UNCHANGED browser

\* POST /api/download, downloader.start(...) throws synchronously: the
\* entry was stored at line 125, no callback is attached, 500.  Whether
\* start() can throw before it returns its promise depends on the library,
\* so this outcome is part of SpecStartThrows only.
CreateStartThrows(url, outDir) ==
  /\ ~RequestRejected(url, outDir)
  /\ Len(sessions) < MaxSessions
  /\ LET downloadId == DownloadIdOf(now)
         s == Len(sessions) + 1
     IN /\ sessions' = Append(sessions,
              [id |-> downloadId, aborted |-> FALSE, op |-> "notstarted", returned |-> FALSE])
        /\ activeDownloads' = MapSet(activeDownloads, downloadId, s)
        /\ last' = Response("create", Request(url, outDir, Undefined), 500, {})
  /\ UNCHANGED <<now, events, cancelAccepted, sockets, logRaised, fs, browser>>

\* POST /api/download, the normal path: the entry is stored, the operation
\* is started with the session's signal, and the id is returned.
Started(url, outDir) ==
  /\ ~RequestRejected(url, outDir)
  /\ Len(sessions) < MaxSessions
  /\ LET downloadId == DownloadIdOf(now)
         s == Len(sessions) + 1
     IN /\ sessions' = Append(sessions,
              [id |-> downloadId, aborted |-> FALSE, op |-> "running", returned |-> TRUE])
        /\ activeDownloads' = MapSet(activeDownloads, downloadId, s)
        /\ last' = Response("create", Request(url, outDir, Undefined), 200, {downloadId})
  /\ UNCHANGED <<now, events, cancelAccepted, sockets, logRaised, fs>>

CreateStarted(url, outDir) == Started(url, outDir) /\ UNCHANGED browser

\* POST /api/download: the whole handler, one of its outcomes.
Create(url, outDir) ==
  \/ CreateRejected(url, outDir)
  \/ CreateConstructorThrows(url, outDir)
  \/ CreateStarted(url, outDir)

\* downloader.start() resolved: the .then callback of session s.
Then(s) ==
  /\ s \in DOMAIN sessions
  /\ sessions[s].op = "running"
  /\ Publish(Event("complete", sessions[s].id, s))
  /\ activeDownloads' = MapDelete(activeDownloads, sessions[s].id)
  /\ sessions' = [sessions EXCEPT ![s].op = "resolved"]
  /\ UNCHANGED <<now, last, cancelAccepted, logRaised, fs, browser>>

\* downloader.start() rejected: the .catch callback of session s.
CatchWith(s, error) ==
  /\ s \in DOMAIN sessions
  /\ sessions[s].op = "running"
  /\ IF ReportsFailure(s)
       THEN Publish(ErrorEvent(sessions[s].id, error, s))
       ELSE UNCHANGED <<events, sockets>>
  /\ activeDownloads' = MapDelete(activeDownloads, sessions[s].id)
  /\ sessions' = [sessions EXCEPT ![s].op = "rejected"]
  /\ UNCHANGED <<now, last, cancelAccepted, logRaised, fs, browser>>

Catch(s) == \E error \in Rejections : CatchWith(s, error)

\* POST /api/download/:id/cancel
Cancel(id) ==
  LET download == MapGet(activeDownloads, id)
  IN IF download = NoSession
       THEN /\ last' = Response("cancel", Request(Undefined, Undefined, id), 404, {})
            /\ UNCHANGED <<now, activeDownloads, sessions, events, cancelAccepted, sockets, logRaised, fs, browser>>
       ELSE /\ sessions' = [sessions EXCEPT ![download].aborted = TRUE]
            /\ activeDownloads' = MapDelete(activeDownloads, id)
            /\ Publish(Event("cancelled", id, download))
            /\ last' = Response("cancel", Request(Undefined, Undefined, id), 200, {})
            /\ cancelAccepted' = cancelAccepted \cup Running(id)
            /\ UNCHANGED <<now, logRaised, fs, browser>>

\* GET /api/downloads
List ==
  /\ last' = Response("list", Request(Undefined, Undefined, Undefined), 200,
                      MapKeys(activeDownloads))
  /\ UNCHANGED <<now, activeDownloads, sessions, events, cancelAccepted, sockets, logRaised, fs, browser>>

Next ==
  \/ Tick
  \/ \E url \in Urls, outDir \in OutDirs : Create(url, outDir)
  \/ \E s \in 1..MaxSessions : Then(s)
  \/ \E s \in 1..MaxSessions : Catch(s)
  \/ \E id \in CancelIds : Cancel(id)
  \/ List

Spec == Init /\ [][Next]_vars

\* The same program with a downloader whose start() may throw synchronously.
NextStartThrows ==
  \/ Next
  \/ \E url \in Urls, outDir \in OutDirs : CreateStartThrows(url, outDir)

SpecStartThrows == Init /\ [][NextStartThrows]_vars

\* Every operation that was started returns: its promise settles and the
\* callback attached at lines 129-146 runs.
OperationsReturn == \A s \in 1..MaxSessions : WF_vars(Then(s) \/ Catch(s))

FairSpec == Spec /\ OperationsReturn

FairSpecStartThrows == SpecStartThrows /\ OperationsReturn

\* ---- the WebSocket clients and the logger ----------------------------------
\* A client's handshake completes: the socket joins wss.clients, open.
Connect(c) ==
  /\ sockets[c].readyState = CONNECTING
  /\ sockets' = [sockets EXCEPT ![c].readyState = OPEN, ![c].joined = Len(events)]
  /\ UNCHANGED <<now, activeDownloads, sessions, events, last, cancelAccepted, logRaised, fs, browser>>

\* A close frame is sent or received: the socket stays in wss.clients until
\* its 'close' event.
BeginClose(c) ==
  /\ sockets[c].readyState = OPEN
  /\ sockets' = [sockets EXCEPT ![c].readyState = CLOSING, ![c].left = Len(events)]
  /\ UNCHANGED <<now, activeDownloads, sessions, events, last, cancelAccepted, logRaised, fs, browser>>

\* The connection is gone ('close', server.ts:30): the socket leaves
\* wss.clients.  An open socket whose connection drops gets here at once.
Closed(c) ==
  /\ sockets[c].readyState \in {OPEN, CLOSING}
  /\ sockets' = [sockets EXCEPT
                   ![c].readyState = CLOSED,
                   ![c].left = IF sockets[c].readyState = OPEN THEN Len(events) ELSE @]
  /\ UNCHANGED <<now, activeDownloads, sessions, events, last, cancelAccepted, logRaised, fs, browser>>

\* The operation of session s calls logger.log(entry) (server.ts:46-74).
\* When broadcast throws, the exception leaves log() for the operation.
Log(s, entry) ==
  /\ s \in DOMAIN sessions
  /\ sessions[s].op = "running"
  /\ IF ~entry.present
       THEN UNCHANGED <<events, sockets, logRaised, fs, browser>>
       ELSE IF BroadcastThrows(LogEvent(entry, s))
         THEN /\ logRaised' = logRaised \cup {s}
              /\ UNCHANGED <<events, sockets>>
         ELSE /\ Publish(LogEvent(entry, s))
              /\ UNCHANGED logRaised
  /\ UNCHANGED <<now, activeDownloads, sessions, last, cancelAccepted, fs, browser>>

\* The log events broadcast so far.
LogEvents == {i \in DOMAIN events : events[i].type = "log"}

\* The entries logged where the clients come and go: a line of text with an
\* Error, and a BigInt.
BusEntries ==
  { Entry("error", "downloader",
          <<Value("string", "page 1 of 3"),
            ErrorValue("TypeError", "fetch failed", Undefined, Undefined)>>),
    Entry("debug", "downloader", <<Value("bigint", "7")>>) }

\* Two downloads were created one millisecond apart and are running.
InitBus ==
  /\ now = 1
  /\ sessions = << [id |-> DownloadIdOf(0), aborted |-> FALSE, op |-> "running", returned |-> TRUE],
                   [id |-> DownloadIdOf(1), aborted |-> FALSE, op |-> "running", returned |-> TRUE] >>
  /\ activeDownloads = MapSet(MapSet(<< >>, DownloadIdOf(0), 1), DownloadIdOf(1), 2)
  /\ events = << >>
  /\ last = Response("create", Request("https://example.test/gallery", "/tmp/out", Undefined),
                     200, {DownloadIdOf(1)})
  /\ cancelAccepted = {}
  /\ sockets = [c \in Clients |->
                  [readyState |-> CONNECTING, inbox |-> << >>, joined |-> 0, left |-> 0]]
  /\ logRaised = {}
  /\ fs = EmptyParent
  /\ browser = [c \in Clients |-> PageLoaded]

NextBus ==
  \/ \E c \in Clients : Connect(c)
  \/ \E c \in Clients : BeginClose(c)
  \/ \E c \in Clients : Closed(c)
  \/ \E s \in DOMAIN sessions, entry \in BusEntries :
       Cardinality(LogEvents) + Cardinality(logRaised) < MaxLogs /\ Log(s, entry)
  \/ \E s \in DOMAIN sessions : Then(s)

SpecBus == InitBus /\ [][NextBus]_vars

\* ---- the log adapter on its own ---------------------------------------------
\* Every message array of at most MaxParts values.
Messages == UNION { [1..n -> Values] : n \in 0..MaxParts }

LogEntries == { Entry("info", "downloader", message) : message \in Messages } \cup {NullEntry}

\* One download is running; every client is connected or gone.
InitLog ==
  /\ now = 0
  /\ sessions = << [id |-> DownloadIdOf(0), aborted |-> FALSE, op |-> "running", returned |-> TRUE] >>
  /\ activeDownloads = MapSet(<< >>, DownloadIdOf(0), 1)
  /\ events = << >>
  /\ last = Response("create", Request("https://example.test/gallery", "/tmp/out", Undefined),
                     200, {DownloadIdOf(0)})
  /\ cancelAccepted = {}
  /\ \E states \in [Clients -> {OPEN, CLOSED}] :
       sockets = [c \in Clients |->
                    [readyState |-> states[c], inbox |-> << >>, joined |-> 0, left |-> 0]]
  /\ logRaised = {}
  /\ fs = EmptyParent
  /\ browser = [c \in Clients |-> PageLoaded]

\* The first call of logger.log.
NextLog ==
  \E entry \in LogEntries : events = << >> /\ logRaised = {} /\ Log(1, entry)

SpecLog == InitLog /\ [][NextLog]_vars

\* ---- POST /api/validate-path ----------------------------------------------
\* Values of req.body.dirPath: absent, empty, a JSON number, an absolute
\* path, a bare relative name, and a path with a NUL byte in its last
\* component.
NotAString == "<number 5>"
AbsolutePath == "/data/out"
BareName == "out"
NulPath == "/data/o<NUL>ut"

DirPaths == {Undefined, "", NotAString, AbsolutePath, BareName, NulPath}

\* path.parse(dirPath) throws TypeError unless dirPath is a string.
PathParseThrows(dirPath) == dirPath = NotAString

\* path.parse(dirPath).dir: everything before the last separator, the empty
\* string when there is no separator.
PathParseDir(dirPath) == IF dirPath = BareName THEN "" ELSE "/data"

\* The path cannot be handed to the operating system.
HasNulByte(dirPath) == dirPath = NulPath

\* fs.existsSync(parentPath).  It returns false for the empty string.
ParentExistsSync(dirPath) == PathParseDir(dirPath) # "" /\ fs.parent # "missing"

\* fs.existsSync(dirPath).  It returns false, and never throws, when the
\* path is invalid or when stat fails (no search permission on the parent).
ExistsSync(dirPath) ==
  /\ ~HasNulByte(dirPath)
  /\ fs.parent = "dir"
  /\ fs.parentSearchable
  /\ fs.target # "missing"

Message(exists, isDirectory, writable, parentExists) ==
  IF exists
    THEN IF isDirectory
           THEN IF writable THEN "Directory is valid and writable"
                            ELSE "Directory exists but is not writable"
           ELSE "Path exists but is not a directory"
    ELSE IF parentExists THEN "Directory will be created"
                         ELSE "Parent directory does not exist"

\* server.ts:203-265  the handler's response.  statThrows: fs.statSync(dirPath)
\* throws although existsSync has just returned true (the path was removed
\* in between).
ValidatePathResponse(dirPath, statThrows) ==
  IF Falsy(dirPath)
    THEN [status |-> 400, body |-> [error |-> "Path is required"]]
  ELSE IF PathParseThrows(dirPath)
    THEN [status |-> 400,
          body |-> [valid |-> FALSE,
                    error |-> "The \"path\" argument must be of type string"]]
  ELSE
    LET parentPath == PathParseDir(dirPath)
        parentExists == ParentExistsSync(dirPath) /\ fs.parent = "dir"
        exists == ExistsSync(dirPath)
        isDirectory == exists /\ ~statThrows /\ fs.target = "dir"
        writable == IF exists THEN ~statThrows /\ fs.targetWritable ELSE parentExists
    IN [status |-> 200,
        body |-> [valid |-> IF exists THEN isDirectory /\ writable ELSE parentExists,
                  exists |-> exists,
                  isDirectory |-> isDirectory,
                  writable |-> writable,
                  parentExists |-> parentExists,
                  parentPath |-> parentPath,
                  message |-> Message(exists, isDirectory, writable, parentExists)]]

ValidatePath(dirPath, statThrows) ==
  /\ last' = Response("validate", [dirPath |-> dirPath],
                      ValidatePathResponse(dirPath, statThrows).status,
                      ValidatePathResponse(dirPath, statThrows).body)
  /\ UNCHANGED <<now, activeDownloads, sessions, events, cancelAccepted, sockets, logRaised, fs, browser>>

\* The server has just started, on any filesystem.
InitPath ==
  /\ now = 0
  /\ activeDownloads = << >>
  /\ sessions = << >>
  /\ events = << >>
  /\ last = Response("none", Request(Undefined, Undefined, Undefined), 0, {})
  /\ cancelAccepted = {}
  /\ sockets = [c \in Clients |->
                  [readyState |-> CONNECTING, inbox |-> << >>, joined |-> 0, left |-> 0]]
  /\ logRaised = {}
  /\ fs \in Filesystems
  /\ browser = [c \in Clients |-> PageLoaded]

NextPath == \E dirPath \in DirPaths, statThrows \in BOOLEAN : ValidatePath(dirPath, statThrows)

SpecPath == InitPath /\ [][NextPath]_vars

\* ---- the page's handlers (app.js) ---------------------------------------------
\* app.js:383-387  resetDownloadState()
ResetDownloadState(page) ==
  [page EXCEPT !.currentDownloadId = Null, !.startDisabled = FALSE, !.cancelDisabled = TRUE]

\* What the user has typed into the form: both fields pass lines 280-291.
GalleryUrl == "https://example.test/gallery"
DownloadPath == "/tmp/out"

\* app.js:332-346  the Start handler, once the path is validated: the
\* buttons are switched and POST /api/download is sent.  The server handles
\* the request (here: stores the download and starts it); the response is
\* on its way back.
StartClick(c) ==
  /\ ~browser[c].startDisabled
  /\ browser[c].fetch = NoFetch
  /\ Started(GalleryUrl, DownloadPath)
  /\ browser' = [browser EXCEPT
                   ![c].startDisabled = TRUE,
                   ![c].cancelDisabled = FALSE,
                   ![c].fetch = [status |-> 200, downloadId |-> DownloadIdOf(now)],
                   ![c].session = Len(sessions) + 1]

\* The same, answered 500 by the server.
StartClickFails(c) ==
  /\ ~browser[c].startDisabled
  /\ browser[c].fetch = NoFetch
  /\ ConstructorThrows(GalleryUrl, DownloadPath)
  /\ browser' = [browser EXCEPT
                   ![c].startDisabled = TRUE,
                   ![c].cancelDisabled = FALSE,
                   ![c].fetch = [status |-> 500, downloadId |-> Undefined]]

\* app.js:348-359  the response of POST /api/download has arrived.
StartResponse(c) ==
  /\ browser[c].fetch # NoFetch
  /\ browser' = [browser EXCEPT
                   ![c] = IF browser[c].fetch.status = 200
                            THEN [@ EXCEPT !.currentDownloadId = browser[c].fetch.downloadId,
                                           !.fetch = NoFetch]
                            ELSE [ResetDownloadState(@) EXCEPT !.fetch = NoFetch]]
  /\ UNCHANGED <<now, activeDownloads, sessions, events, last, cancelAccepted, sockets,
                 logRaised, fs>>

\* app.js:31-38, 52-67, 112-132  ws.onmessage for the next message sent to
\* the page's socket: 'complete', 'error' and 'cancelled' all end in
\* resetDownloadState().
OnMessage(c) ==
  /\ browser[c].handled < Len(sockets[c].inbox)
  /\ LET data == sockets[c].inbox[browser[c].handled + 1]
     IN browser' = [browser EXCEPT
                      ![c] = IF data.type \in {"complete", "error", "cancelled"}
                               THEN [ResetDownloadState(@) EXCEPT !.handled = @ + 1]
                               ELSE [@ EXCEPT !.handled = @ + 1]]
  /\ UNCHANGED <<now, activeDownloads, sessions, events, last, cancelAccepted, sockets,
                 logRaised, fs>>

\* app.js:40-43, 23-25  ws.onclose, and three seconds later
\* connectWebSocket(): a new socket.  Nothing that was broadcast in between
\* is sent to it.
Reconnect(c) ==
  /\ sockets[c].readyState = CLOSED
  /\ browser[c].handled = Len(sockets[c].inbox)
  /\ sockets' = [sockets EXCEPT
                   ![c] = [readyState |-> CONNECTING, inbox |-> << >>, joined |-> 0, left |-> 0]]
  /\ browser' = [browser EXCEPT ![c].handled = 0]
  /\ UNCHANGED <<now, activeDownloads, sessions, events, last, cancelAccepted, logRaised, fs>>

\* app.js:363-380  the Cancel handler; the server handles the request.
CancelClick(c) ==
  /\ ~browser[c].cancelDisabled
  /\ browser[c].currentDownloadId # Null
  /\ Cancel(browser[c].currentDownloadId)

\* The clients that have the page open; downloads are also started by
\* other users of the HTTP interface.
Pages == 1..MaxPages

NextClient ==
  \/ Tick
  \/ \E c \in Pages : Connect(c)
  \/ \E c \in Pages : Closed(c)
  \/ \E c \in Pages : Reconnect(c)
  \/ \E c \in Pages : StartClick(c)
  \/ \E c \in Pages : StartClickFails(c)
  \/ \E c \in Pages : StartResponse(c)
  \/ \E c \in Pages : OnMessage(c)
  \/ \E c \in Pages : CancelClick(c)
  \/ CreateStarted(GalleryUrl, DownloadPath)
  \/ \E s \in 1..MaxSessions : Then(s)

SpecClient == Init /\ [][NextClient]_vars

\* Pages handle what they are sent, sockets connect and reconnect, and
\* operations return.
PagesRun ==
  \A c \in Pages :
    /\ WF_vars(Connect(c))
    /\ WF_vars(Reconnect(c))
    /\ WF_vars(StartResponse(c))
    /\ WF_vars(OnMessage(c))

FairSpecClient == SpecClient /\ PagesRun /\ OperationsReturn

\* ---- vocabulary of the properties ----------------------------------------
\* The terminal messages that the closure of session s, or a cancel that
\* found s in the registry, has broadcast.
TerminalEventsOf(s) ==
  {i \in DOMAIN events : events[i].sid = s /\ events[i].type \in TerminalTypes}

\* The session has reached a terminal state: its operation returned, or its
\* signal was triggered by an accepted cancel.
Terminated(s) == sessions[s].op \in {"resolved", "rejected"} \/ sessions[s].aborted

\* The session is live: its operation was started, has not returned, and no
\* cancel request for its identifier has been accepted.
Live(s) ==
  /\ sessions[s].op = "running"
  /\ ~sessions[s].aborted
  /\ s \notin cancelAccepted

\* The sessions that a create call answered with identifier id.
ReturnedAs(id) == {s \in DOMAIN sessions : sessions[s].returned /\ sessions[s].id = id}

\* This step appends exactly the wire message {type, downloadId} to the
\* broadcast messages.
BroadcastsOnly(type, id) ==
  /\ Len(events') = Len(events) + 1
  /\ SubSeq(events', 1, Len(events)) = events
  /\ events'[Len(events')].type = type
  /\ events'[Len(events')].downloadId = id

\* ---- C1 -------------------------------------------------------------------
\* C1: every identifier returned by a create differs from every identifier
\* returned by an earlier create, two creates within one millisecond included.
FreshIdentifiers ==
  \A s, t \in DOMAIN sessions :
    (s # t /\ sessions[s].returned /\ sessions[t].returned)
      => sessions[s].id # sessions[t].id

\* ---- C2 -------------------------------------------------------------------
\* C2: of the cancel path and the terminal callback of one session, at most
\* one performs the terminal transition: a session never has two terminal
\* messages broadcast for it.
OneTerminalOwner ==
  \A s \in DOMAIN sessions : Cardinality(TerminalEventsOf(s)) <= 1

\* ---- C3 -------------------------------------------------------------------
\* C3: once a cancel has triggered the signal of a session, no 'complete'
\* message is broadcast by that session.
NoCompleteAfterCancel ==
  \A s \in DOMAIN sessions :
    sessions[s].aborted
      => \A i \in DOMAIN events : ~(events[i].sid = s /\ events[i].type = "complete")

\* ---- C4 -------------------------------------------------------------------
\* C4: a session that was running when a cancel request for its identifier
\* was accepted never has an 'error' message broadcast for it.
NoErrorAfterCancel ==
  \A s \in cancelAccepted :
    \A i \in DOMAIN events : ~(events[i].sid = s /\ events[i].type = "error")

\* ---- C5 -------------------------------------------------------------------
\* C5: no key of activeDownloads is the identifier of a session for which a
\* terminal message has been broadcast.
ListHoldsNoTerminalIdentifier ==
  \A i \in DOMAIN events :
    events[i].type \in TerminalTypes
      => events[i].downloadId \notin MapKeys(activeDownloads)

\* ---- C6 -------------------------------------------------------------------
\* C6: every live session is in the registry under its own identifier, and
\* the entry holds its own cancellation handle.
LiveSessionsRegistered ==
  \A s \in DOMAIN sessions :
    Live(s) => MapGet(activeDownloads, sessions[s].id) = s

\* ---- C7 -------------------------------------------------------------------
\* C7: a cancel request for the identifier of a live session is answered
\* 200 and broadcasts exactly one 'cancelled' message; a cancel request that
\* follows an accepted cancel request for the same identifier is answered
\* 404 and broadcasts nothing.
CancelTwice ==
  [][\A id \in CancelIds :
       Cancel(id) =>
         /\ (\E s \in ReturnedAs(id) : Live(s))
              => (last'.status = 200 /\ BroadcastsOnly("cancelled", id))
         /\ (last.op = "cancel" /\ last.status = 200 /\ last.req.id = id)
              => (last'.status = 404 /\ events' = events)]_vars

\* ---- C8 -------------------------------------------------------------------
\* C8: after a cancel request for an identifier was answered 200, the
\* identifier is not in the registry, and the signal of every session that
\* was running under that identifier is triggered, in every later state.
CancelTriggersTheSignal ==
  /\ (last.op = "cancel" /\ last.status = 200)
       => last.req.id \notin MapKeys(activeDownloads)
  /\ \A s \in cancelAccepted : sessions[s].aborted

\* ---- C9 -------------------------------------------------------------------
\* C9: a cancel request for an identifier that no create produced, or that
\* belongs to a session that has reached a terminal state, is answered 404
\* and changes neither the registry nor any signal nor the messages.
CancelOfFinishedIsNotFound ==
  [][\A id \in CancelIds :
       (/\ Cancel(id)
        /\ \/ \A s \in DOMAIN sessions : sessions[s].id # id
           \/ \E s \in DOMAIN sessions : sessions[s].id = id /\ Terminated(s))
         => /\ last'.status = 404
            /\ UNCHANGED <<activeDownloads, sessions, events>>]_vars

\* ---- C10 ------------------------------------------------------------------
\* C10: a create request whose url or outDir is missing or empty is answered
\* 400 and changes neither the registry nor the sessions (no identifier is
\* allocated, no operation is started) nor the messages.
InvalidCreateHasNoEffect ==
  [][\A url \in Urls, outDir \in OutDirs :
       (/\ Create(url, outDir)
        /\ (url \in {Undefined, ""} \/ outDir \in {Undefined, ""}))
         => /\ last'.op = "create"
            /\ last'.status = 400
            /\ last'.body = {}
            /\ UNCHANGED <<activeDownloads, sessions, events>>]_vars

\* A create request without an outDir was answered 400 while a download was
\* registered and a message had been broadcast.
InvalidCreateWitness ==
  /\ last.op = "create"
  /\ last.status = 400
  /\ last.req.url # Undefined
  /\ last.req.url # ""
  /\ last.req.outDir \in {Undefined, ""}
  /\ MapKeys(activeDownloads) # {}
  /\ Len(events) > 0

\* ---- C11 ------------------------------------------------------------------
\* C11: when a create request is answered 200, the identifier in the answer
\* is a key of activeDownloads mapped to the new session, the operation of
\* the new session has been started and has not returned, and no message of
\* that session has been broadcast.
CreateRegistersBeforeReturning ==
  [][\A url \in Urls, outDir \in OutDirs :
       (Create(url, outDir) /\ last'.op = "create" /\ last'.status = 200)
         => /\ Len(sessions') = Len(sessions) + 1
            /\ last'.body = {sessions'[Len(sessions')].id}
            /\ last'.body \subseteq MapKeys(activeDownloads')
            /\ \A id \in last'.body : activeDownloads'[id] = Len(sessions')
            /\ sessions'[Len(sessions')].op = "running"
            /\ \A i \in DOMAIN events' : events'[i].sid # Len(sessions')
            /\ events' = events]_vars

\* A create was answered 200 after a terminal message of an earlier session
\* had been broadcast, and its identifier is listed.
CreateRegistersWitness ==
  /\ last.op = "create"
  /\ last.status = 200
  /\ last.body \subseteq MapKeys(activeDownloads)
  /\ Len(sessions) = 2
  /\ sessions[2].op = "running"
  /\ Len(events) > 0

\* ---- C12 ------------------------------------------------------------------
\* C12: a session that was never cancelled gets exactly one terminal message,
\* with its identifier: 'complete' when its operation resolved, 'error' when
\* it rejected (with the message of the Error it rejected with); the callback
\* that broadcasts it removes the identifier from the registry in the same
\* step.
NeverCancelled(s) == ~sessions[s].aborted /\ s \notin cancelAccepted

OneOutcomeOneTerminalEvent ==
  /\ [](\A s \in DOMAIN sessions :
          NeverCancelled(s) =>
            /\ sessions[s].op = "resolved"
                 => \E i \in DOMAIN events :
                      /\ TerminalEventsOf(s) = {i}
                      /\ events[i].type = "complete"
                      /\ events[i].downloadId = sessions[s].id
            /\ sessions[s].op = "rejected"
                 => \E i \in DOMAIN events :
                      /\ TerminalEventsOf(s) = {i}
                      /\ events[i].type = "error"
                      /\ events[i].downloadId = sessions[s].id)
  /\ [][\A s \in DOMAIN sessions :
          /\ (Then(s) /\ NeverCancelled(s))
               => /\ BroadcastsOnly("complete", sessions[s].id)
                  /\ sessions[s].id \notin MapKeys(activeDownloads')
          /\ \A error \in Rejections :
               (CatchWith(s, error) /\ NeverCancelled(s))
                 => /\ BroadcastsOnly("error", sessions[s].id)
                    /\ error.isError => events'[Len(events')].message = error.message
                    /\ sessions[s].id \notin MapKeys(activeDownloads')]_vars

\* One session resolved and another rejected with an Error, neither of them
\* cancelled.
OneOutcomeWitness ==
  \E s, u \in DOMAIN sessions :
    /\ NeverCancelled(s) /\ sessions[s].op = "resolved"
    /\ NeverCancelled(u) /\ sessions[u].op = "rejected"
    /\ \E i \in TerminalEventsOf(u) : events[i].message = "connect ECONNREFUSED"

\* ---- C13 ------------------------------------------------------------------
\* The number of messages broadcast before the socket of client c stopped
\* being open (so far, when it is open).
OpenUntil(c) == IF sockets[c].readyState = OPEN THEN Len(events) ELSE sockets[c].left

\* C13: every message broadcast while the socket of a client was open has
\* been sent to that client, in the order of the broadcasts (hence in the
\* order of each session's broadcasts), whatever the state of the other
\* sockets of wss.clients.
EveryOpenObserverGetsEveryEvent ==
  \A c \in Clients :
    sockets[c].readyState # CONNECTING
      => /\ Len(sockets[c].inbox) >= OpenUntil(c) - sockets[c].joined
         /\ \A i \in 1..(OpenUntil(c) - sockets[c].joined) :
              sockets[c].inbox[i] = Wire(events[sockets[c].joined + i])

\* An open client has received messages of two sessions, among them one that
\* was broadcast while a client before it in wss.clients was closing.
EveryOpenObserverWitness ==
  \E c, d \in Clients :
    /\ d < c
    /\ sockets[c].readyState = OPEN
    /\ sockets[d].readyState = CLOSING
    /\ sockets[d].left < Len(events)
    /\ sockets[d].left >= sockets[c].joined
    /\ \E i, j \in DOMAIN sockets[c].inbox : sockets[c].inbox[i].sid # sockets[c].inbox[j].sid

\* ---- C14 ------------------------------------------------------------------
\* C14: a client has been sent only messages that were broadcast while its
\* socket was open: none broadcast before it connected, none broadcast after
\* it stopped being open.
OnlyEventsWhileOpen ==
  \A c \in Clients :
    \A i \in DOMAIN sockets[c].inbox :
      \E j \in (sockets[c].joined + 1)..OpenUntil(c) : sockets[c].inbox[i] = Wire(events[j])

\* A client that connected after a broadcast has received a later message,
\* and a client that has disconnected missed a message broadcast afterwards.
OnlyEventsWhileOpenWitness ==
  \E c, d \in Clients :
    /\ sockets[c].readyState = OPEN
    /\ sockets[c].joined > 0
    /\ Len(sockets[c].inbox) > 0
    /\ sockets[d].readyState \in {CLOSING, CLOSED}
    /\ Len(sockets[d].inbox) > 0
    /\ sockets[d].left < Len(events)

\* ---- C15 ------------------------------------------------------------------
\* C15: every message broadcast for a session, 'log' messages included,
\* carries that session's identifier as its downloadId.
EveryEventNamesItsSession ==
  \A i \in DOMAIN events : events[i].downloadId = sessions[events[i].sid].id

\* ---- C19 ------------------------------------------------------------------
\* C19: the message of every 'log' event has as many parts as the entry that
\* was logged, in the same order; an Error has become a record with the same
\* name and message, and with its stack when it had one; a primitive value is
\* unchanged; every other value has become a string.
LogPartsNormalised ==
  \A i \in LogEvents :
    /\ Len(events[i].message) = Len(events[i].parts)
    /\ \A k \in DOMAIN events[i].parts :
         LET m == events[i].parts[k]
             out == events[i].message[k]
         IN IF InstanceOfError(m)
              THEN /\ out.kind = "errorRecord"
                   /\ out.name = m.name
                   /\ out.text = m.text
                   /\ m.stack # Undefined => out.stack = m.stack
              ELSE IF IsPrimitive(m)
                THEN out = m
                ELSE out.kind = "string"

\* ---- C20 ------------------------------------------------------------------
\* C20: every call of logger.log with an entry returns normally and
\* broadcasts exactly one 'log' event, whatever the entry holds.
LogAlwaysBroadcastsOnce ==
  [][\A s \in DOMAIN sessions, entry \in LogEntries :
       (entry.present /\ Log(s, entry))
         => /\ logRaised' = logRaised
            /\ Len(events') = Len(events) + 1
            /\ events'[Len(events')].type = "log"]_vars

\* ---- C16 ------------------------------------------------------------------
\* Every probe of the handler can see what it asks about: dirPath is a
\* string the operating system accepts, the server may look names up in the
\* parent directory, and the path does not vanish during the request.
ProbesSucceed(dirPath, statThrows) ==
  /\ ~Falsy(dirPath)
  /\ ~PathParseThrows(dirPath)
  /\ ~HasNulByte(dirPath)
  /\ fs.parent = "dir" => fs.parentSearchable
  /\ ~statThrows

\* The message categories of the decision table.
Ready == "Directory is valid and writable"
NotWritable == "Directory exists but is not writable"
NotADirectory == "Path exists but is not a directory"
WillBeCreated == "Directory will be created"
ParentMissing == "Parent directory does not exist"

\* C16: whatever the filesystem holds, validate-path answers as the decision
\* table says: a writable directory is valid; a directory that is not
\* writable, and a path that is no directory, are invalid; a path that does
\* not exist is valid when its parent directory exists ('will be created')
\* and invalid when it does not.
ValidatePathFollowsTheTable ==
  [][\A dirPath \in DirPaths, statThrows \in BOOLEAN :
       (ValidatePath(dirPath, statThrows) /\ ProbesSucceed(dirPath, statThrows))
         => /\ last'.status = 200
            /\ (fs.target = "dir" /\ fs.targetWritable)
                 => last'.body.valid /\ last'.body.message = Ready
            /\ (fs.target = "dir" /\ ~fs.targetWritable)
                 => ~last'.body.valid /\ last'.body.message = NotWritable
            /\ fs.target = "file"
                 => ~last'.body.valid /\ last'.body.message = NotADirectory
            /\ (fs.target = "missing" /\ fs.parent = "dir")
                 => last'.body.valid /\ last'.body.message = WillBeCreated
            /\ (fs.target = "missing" /\ fs.parent # "dir")
                 => ~last'.body.valid /\ last'.body.message = ParentMissing]_vars

\* ---- C17 ------------------------------------------------------------------
\* C17: for a path that does not exist, the `writable` of the answer is true
\* exactly when the parent directory is a directory the server may write to.
WritableMeansParentWritable ==
  [][\A dirPath \in DirPaths, statThrows \in BOOLEAN :
       (/\ ValidatePath(dirPath, statThrows)
        /\ ProbesSucceed(dirPath, statThrows)
        /\ fs.target = "missing")
         => last'.body.writable = (fs.parent = "dir" /\ fs.parentWritable)]_vars

\* ---- C18 ------------------------------------------------------------------
\* A probe of the handler fails: dirPath is no string or no valid path, or
\* the path cannot be looked up, or it vanishes between two probes.
ProbeFails(dirPath, statThrows) ==
  /\ ~Falsy(dirPath)
  /\ \/ PathParseThrows(dirPath)
     \/ HasNulByte(dirPath)
     \/ fs.parent = "dir" /\ ~fs.parentSearchable
     \/ statThrows /\ ExistsSync(dirPath)

\* C18: whenever a probe fails the handler still answers, with valid = false
\* and a message, whether or not the parent directory exists.
ProbeFailureIsInvalid ==
  [][\A dirPath \in DirPaths, statThrows \in BOOLEAN :
       (ValidatePath(dirPath, statThrows) /\ ProbeFails(dirPath, statThrows))
         => /\ last'.status \in {200, 400}
            /\ ~last'.body.valid
            /\ IF last'.status = 200
                 THEN last'.body.message # Undefined
                 ELSE last'.body.error # Undefined]_vars

\* ---- C21 ------------------------------------------------------------------
\* The operation of session s is over: its promise settled, or start() threw.
Returned(s) == sessions[s].op \in {"resolved", "rejected", "notstarted"}

\* C21: every session stored in activeDownloads is eventually no longer in
\* it and has a terminal message broadcast for it, given that operations
\* return; and once every operation is over, activeDownloads is empty.
EverySessionEnds ==
  /\ \A s \in 1..MaxSessions :
       (s \in DOMAIN sessions)
         ~> (/\ s \in DOMAIN sessions
             /\ MapGet(activeDownloads, sessions[s].id) # s
             /\ TerminalEventsOf(s) # {})
  /\ []((\A s \in DOMAIN sessions : Returned(s)) => MapKeys(activeDownloads) = {})

\* ---- C22 ------------------------------------------------------------------
\* C22: a create request answered 400 or 500 leaves activeDownloads as it
\* was before the request.
FailedCreateLeavesRegistry ==
  [][\A url \in Urls, outDir \in OutDirs :
       (/\ Create(url, outDir) \/ CreateStartThrows(url, outDir)
        /\ last'.status \in {400, 500})
         => activeDownloads' = activeDownloads]_vars

\* ---- C23 ------------------------------------------------------------------
\* The page shows a download in progress: currentDownloadId is set, Start is
\* disabled, Cancel is enabled.
InProgress(c) ==
  /\ browser[c].currentDownloadId # Null
  /\ browser[c].startDisabled
  /\ ~browser[c].cancelDisabled

\* C23: a page leaves its 'download in progress' state only by handling a
\* terminal message whose downloadId is its own currentDownloadId.
OnlyOwnTerminalEventResets ==
  [][\A c \in Pages :
       (/\ InProgress(c)
        /\ \/ browser'[c].currentDownloadId = Null
           \/ ~browser'[c].startDisabled
           \/ browser'[c].cancelDisabled)
         => /\ OnMessage(c)
            /\ sockets[c].inbox[browser[c].handled + 1].type \in TerminalTypes
            /\ sockets[c].inbox[browser[c].handled + 1].downloadId
                 = browser[c].currentDownloadId]_vars

\* ---- C24 ------------------------------------------------------------------
\* The page is idle: currentDownloadId is null, Start is enabled, Cancel is
\* disabled.
Idle(c) ==
  /\ browser[c].currentDownloadId = Null
  /\ ~browser[c].startDisabled
  /\ browser[c].cancelDisabled

\* C24: a page that shows a download in progress is eventually idle again
\* once the download it started has reached a terminal state on the server,
\* whatever the state of its socket when the terminal message was broadcast.
PageIdleAfterTerminal ==
  \A c \in Pages :
    (/\ InProgress(c)
     /\ browser[c].session \in DOMAIN sessions
     /\ Terminated(browser[c].session))
      ~> Idle(c)

====
